---- MODULE Spec2Model ----
(***************************************************************************)
(* Model of the medical audio preprocessing pipeline of IasoScribe         *)
(* (services/iaso-scribe/src/audio_preprocessor.py): AudioPreprocessor's   *)
(* process() pipeline with its on-disk cache, download_audio(), and the    *)
(* sample-level behaviour of the individual stages.                        *)
(***************************************************************************)
EXTENDS Integers, Sequences, FiniteSets, TLC

VARIABLES
    pc,       \* per caller of process(): the statement it is about to execute
    req,      \* per caller: the arguments of its process() call
    audio,    \* per caller: the local variable `audio` (shape, content; err if a stage raised)
    sr,       \* per caller: the local variable `sr`
    key,      \* per caller: the local variable `cache_key`
    trace,    \* per caller: the stages executed so far by the call, in order
    ret,      \* per caller: the path returned by the call
    seen,     \* per caller: the callers whose call had returned when this one checked the cache
    files,    \* the cache directory: path -> file
    dn,       \* the frame of one _reduce_noise call: its argument, locals and position
    vd,       \* the frame of one _remove_silence call
    mx,       \* one file on its way through _load_audio and the downmix of process()
    dl,       \* per caller of download_audio(): its url, position and result
    lv,       \* the frame of one _normalize_audio, _enhance_speech or
              \* _optimize_for_medical call
    cc        \* the frame of one cleanup_cache call

vars == <<pc, req, audio, sr, key, trace, ret, seen, files, dn, vd, mx, dl, lv, cc>>

callVars == <<pc, req, audio, sr, key, trace, ret, seen>>
pipeVars == <<callVars, files, dl>>
stageVars == <<dn, vd, mx, dl, lv, cc>>

(***************************************************************************)
(* Constants of AudioPreprocessor.                                         *)
(***************************************************************************)
target_sample_rate == 16000
window_size == 2048
hop_length == window_size \div 4
frame_duration_ms == 20
\* scipy.signal.filtfilt pads 3 * max(len(a), len(b)) samples and raises
\* ValueError unless the input is longer than that: butter(5, band) has 11
\* coefficients, butter(4, 'high') has 5.
EnhancePadlen == 33
OptimizePadlen == 15
max_scaling == 10

\* speech-frame counts tried at each end of the range
VadEdge == 1

\* sample buffers tried: Wave(seed, _) for seed in 0..MaxSeed
MaxSeed == 2
\* _reduce_noise: buffer lengths up to MaxHops hops past one window, and
\* MaxSlack samples either side of each
MaxHops == 3
MaxSlack == 1
\* a buffer longer than the half second the noise sample is taken from
LongBuffer == 9000
\* _remove_silence: buffers of up to MaxVadFrames whole frames, give or take a sample
MaxVadFrames == 2
\* cleanup_cache: thresholds of up to MaxAgeHours hours
MaxAgeHours == 24
\* audio files of up to MaxChannels channels and MaxMixFrames frames
MaxChannels == 3
MaxMixFrames == 3
\* _normalize_audio, _enhance_speech: samples of up to MaxLevel twentieths in
\* buffers of up to MaxLevelLen samples
MaxLevel == 24
MaxLevelLen == 120

Callers == {"c1", "c2"}

\* a stage function that is not being called
NoCall == [at |-> "idle"]

Max(a, b) == IF a >= b THEN a ELSE b
Min(a, b) == IF a <= b THEN a ELSE b
CeilDiv(a, b) == (a + b - 1) \div b

RECURSIVE GCD(_, _)
GCD(a, b) == IF b = 0 THEN a ELSE GCD(b, a % b)

(***************************************************************************)
(* Inputs of process(): a path of an audio file, or a numpy array.         *)
(* `bytes` names the sample bytes of the array the call hashes.            *)
(***************************************************************************)
FileInput(frames, channels, rate, bytes, decoders) ==
    [kind |-> "file", frames |-> frames, channels |-> channels, rate |-> rate,
     shape |-> <<>>, bytes |-> bytes, decoders |-> decoders]

ArrayInput(shape, bytes) ==
    [kind |-> "array", frames |-> 0, channels |-> 0, rate |-> 0,
     shape |-> shape, bytes |-> bytes, decoders |-> {}]

\* 5 seconds, 44.1 kHz, 2 channels: a WAV file, which the primary decoder reads
Stereo5sWav == FileInput(5 * 44100, 2, 44100, "stereo5s_planar", {"librosa", "pydub"})
\* the same recording in a container only the fallback decoder reads
Stereo5sM4a == FileInput(5 * 44100, 2, 44100, "stereo5s_interleaved", {"pydub"})
\* 2 seconds of silence, 16 kHz mono
Silence2s == FileInput(2 * 16000, 1, 16000, "zeros2s", {"librosa", "pydub"})
\* a file neither decoder can read
Garbage == FileInput(0, 0, 0, "garbage", {})
Tone4000 == ArrayInput(<<4000>>, "tone4000")
Tone20 == ArrayInput(<<20>>, "tone20")
Empty == ArrayInput(<<0>>, "empty")
\* a readable file with no frames
EmptyWav == FileInput(0, 1, 16000, "empty", {"librosa", "pydub"})

Inputs == {Stereo5sWav, Stereo5sM4a, Silence2s, Garbage, Tone4000, Tone20, Empty, EmptyWav}

\* the inputs whose every sample is 0.0
ZeroBytes == {"zeros2s", "empty"}

Flags == [denoise : BOOLEAN, normalize_audio : BOOLEAN,
          remove_silence : BOOLEAN, enhance_speech : BOOLEAN]

AllFlags == [denoise |-> TRUE, normalize_audio |-> TRUE,
             remove_silence |-> TRUE, enhance_speech |-> TRUE]

Requests == [input : Inputs, flags : Flags]

\* the local `audio` of a call: its shape, whether every sample is 0.0, the
\* decoders that were invoked to load it, and the exception a statement raised
NoAudio == [shape |-> <<>>, err |-> "", zero |-> FALSE, tried |-> <<>>]
Buffer(shape) == [NoAudio EXCEPT !.shape = shape]
Raise(a, e) == [a EXCEPT !.err = e]
Samples(a) == a.shape[Len(a.shape)]

(***************************************************************************)
(* _load_audio: librosa.load(mono=False) first, AudioSegment.from_file on  *)
(* any exception; an exception of the fallback propagates.                 *)
(***************************************************************************)
LibrosaShape(f) ==
    IF f.channels = 1 THEN <<f.frames>> ELSE <<f.channels, f.frames>>

PydubShape(f) ==
    IF f.channels = 2 THEN <<f.frames, 2>> ELSE <<f.frames * f.channels>>

\* the fallback decoder in front of the primary one
LoadAudioFallbackFirst(f) ==
    IF "pydub" \in f.decoders
    THEN [Buffer(PydubShape(f)) EXCEPT !.zero = f.bytes \in ZeroBytes,
                                       !.tried = <<"pydub">>]
    ELSE IF "librosa" \in f.decoders
    THEN [Buffer(LibrosaShape(f)) EXCEPT !.zero = f.bytes \in ZeroBytes,
                                         !.tried = <<"pydub", "librosa">>]
    ELSE [Raise(NoAudio, "CouldntDecodeError") EXCEPT !.tried = <<"pydub", "librosa">>]

LoadAudio(f) ==
    IF "librosa" \in f.decoders
    THEN [Buffer(LibrosaShape(f)) EXCEPT !.zero = f.bytes \in ZeroBytes,
                                         !.tried = <<"librosa">>]
    ELSE IF "pydub" \in f.decoders
    THEN [Buffer(PydubShape(f)) EXCEPT !.zero = f.bytes \in ZeroBytes,
                                       !.tried = <<"librosa", "pydub">>]
    ELSE [Raise(NoAudio, "CouldntDecodeError") EXCEPT !.tried = <<"librosa", "pydub">>]

(***************************************************************************)
(* _get_cache_key: md5(audio.tobytes()).hexdigest()[:8], then str() of     *)
(* each flag, joined by '_'.  The key is the sequence of the joined parts. *)
(***************************************************************************)
Str(b) == IF b THEN "True" ELSE "False"

AudioHash(bytes) == bytes

\* a key that leaves the last flag out
CacheKeyWithoutEnhance(bytes, fl) ==
    <<AudioHash(bytes), Str(fl.denoise), Str(fl.normalize_audio), Str(fl.remove_silence)>>

CacheKey(bytes, fl) ==
    <<AudioHash(bytes), Str(fl.denoise), Str(fl.normalize_audio),
      Str(fl.remove_silence), Str(fl.enhance_speech)>>

\* os.path.join(cache_dir, f"{prefix}{stem}.{ext}")
Path(prefix, stem, ext) == [prefix |-> prefix, stem |-> stem, ext |-> ext]
NoPath == Path("", <<>>, "")

CachedPath(k) == Path("", k, "wav")
OutputPath(k) == Path("processed_", k, "wav")

Exists(p) == p \in DOMAIN files

(***************************************************************************)
(* The stages of process() on the shape of the buffer.  A stage that       *)
(* raises leaves the exception's name in err.                              *)
(***************************************************************************)
\* np.mean(audio, axis=1): the second axis is averaged away
MeanAxis1Shape(shape) ==
    [i \in 1..(Len(shape) - 1) |-> IF i = 1 THEN shape[1] ELSE shape[i + 1]]

Downmix(a) == [a EXCEPT !.shape = MeanAxis1Shape(@)]

\* librosa.resample: ceil(n * target_sr / orig_sr) samples along the last
\* axis; it raises ParameterError when that is less than one sample.
\* (the ratio is reduced to lowest terms before multiplying)
ResampledLength(n, rate) ==
    LET g == GCD(target_sample_rate, rate) IN
    CeilDiv(n * (target_sample_rate \div g), rate \div g)

Resample(a, rate) ==
    LET n == ResampledLength(Samples(a), rate) IN
    IF n < 1 THEN Raise(a, "ParameterError")
    ELSE [a EXCEPT !.shape = [i \in 1..Len(@) |-> IF i = Len(@) THEN n ELSE @[i]]]

EnhanceSpeechShape(a) ==
    IF Samples(a) <= EnhancePadlen THEN Raise(a, "ValueError") ELSE a

\* np.fft.rfft of an empty noise sample raises; denoised = np.zeros_like(audio),
\* which is what comes back when the window loop has no iteration
ReduceNoiseShape(a) ==
    IF Samples(a) = 0 THEN Raise(a, "ValueError")
    ELSE [a EXCEPT !.zero = @ \/ Samples(a) <= window_size]

FrameLength(rate) == (rate * frame_duration_ms) \div 1000

\* frames of the padded buffer that _remove_silence hands to the detector
NumFrames(n, rate) ==
    (n + (FrameLength(rate) - (n % FrameLength(rate)))) \div FrameLength(rate)

\* the voiced frames returned even when there are none
RemoveSilenceShapeNoFallback(a, rate, nspeech) ==
    [a EXCEPT !.shape = <<nspeech * FrameLength(rate)>>]

\* nspeech: the number of frames the detector classifies as speech
RemoveSilenceShape(a, rate, nspeech) ==
    IF nspeech > 0 THEN [a EXCEPT !.shape = <<nspeech * FrameLength(rate)>>] ELSE a

NormalizeShape(a) == a

\* a high-pass filter that accepts a buffer of any length
OptimizeForMedicalShapeAnyLength(a) == a

\* scipy.signal.filtfilt raises ValueError unless the buffer is longer than
\* its padding
OptimizeForMedicalShape(a) ==
    IF Samples(a) <= OptimizePadlen THEN Raise(a, "ValueError") ELSE a

(***************************************************************************)
(* process(): one action per statement group, in program order.            *)
(***************************************************************************)
Order == <<"load", "check", "downmix", "resample", "enhance", "denoise",
           "vad", "normalize", "optimize", "open", "write">>

IndexOf(s) == CHOOSE i \in 1..Len(Order) : Order[i] = s

\* enhancement and noise reduction in the opposite order
StageAfterSwapped(s) ==
    CASE s = "resample" -> "denoise"
      [] s = "denoise" -> "enhance"
      [] s = "enhance" -> "vad"
      [] OTHER -> IF IndexOf(s) = Len(Order) THEN "done" ELSE Order[IndexOf(s) + 1]

StageAfter(s) ==
    IF IndexOf(s) = Len(Order) THEN "done" ELSE Order[IndexOf(s) + 1]

\* noise reduction run unconditionally
StageEnabledAlwaysDenoise(s, fl) ==
    CASE s = "enhance" -> fl.enhance_speech
      [] s = "vad" -> fl.remove_silence
      [] s = "normalize" -> fl.normalize_audio
      [] OTHER -> TRUE

\* the `if <flag>:` in front of each optional stage
StageEnabled(s, fl) ==
    CASE s = "enhance" -> fl.enhance_speech
      [] s = "denoise" -> fl.denoise
      [] s = "vad" -> fl.remove_silence
      [] s = "normalize" -> fl.normalize_audio
      [] OTHER -> TRUE

\* the statement at label s assigns a to audio (unless it is skipped)
Stage(c, s, a) ==
    /\ pc[c] = s
    /\ IF StageEnabled(s, req[c].flags)
       THEN /\ audio' = [audio EXCEPT ![c] = a]
            /\ trace' = [trace EXCEPT ![c] = Append(@, s)]
            /\ pc' = [pc EXCEPT ![c] = IF a.err = "" THEN StageAfter(s) ELSE "failed"]
       ELSE /\ pc' = [pc EXCEPT ![c] = StageAfter(s)]
            /\ UNCHANGED <<audio, trace>>

Load(c) ==
    /\ pc[c] = "load"
    /\ IF req[c].input.kind = "file"
       THEN LET a == LoadAudio(req[c].input) IN
            /\ audio' = [audio EXCEPT ![c] = a]
            /\ sr' = [sr EXCEPT ![c] = req[c].input.rate]
            /\ trace' = [trace EXCEPT ![c] = Append(@, "load")]
            /\ pc' = [pc EXCEPT ![c] = IF a.err = "" THEN StageAfter("load") ELSE "failed"]
       ELSE /\ audio' = [audio EXCEPT ![c] =
                           [Buffer(req[c].input.shape) EXCEPT
                               !.zero = req[c].input.bytes \in ZeroBytes]]
            /\ sr' = [sr EXCEPT ![c] = target_sample_rate]
            /\ pc' = [pc EXCEPT ![c] = StageAfter("load")]
            /\ UNCHANGED trace
    /\ UNCHANGED <<req, key, ret, seen, files, stageVars>>

CheckCache(c) ==
    LET k == CacheKey(req[c].input.bytes, req[c].flags) IN
    /\ pc[c] = "check"
    /\ key' = [key EXCEPT ![c] = k]
    /\ seen' = [seen EXCEPT ![c] = {d \in Callers : pc[d] = "done"}]
    /\ IF Exists(CachedPath(k))
       THEN /\ ret' = [ret EXCEPT ![c] = CachedPath(k)]
            /\ pc' = [pc EXCEPT ![c] = "done"]
       ELSE /\ pc' = [pc EXCEPT ![c] = StageAfter("check")]
            /\ UNCHANGED ret
    /\ UNCHANGED <<req, audio, sr, trace, files, stageVars>>

ConvertToMono(c) ==
    /\ pc[c] = "downmix"
    /\ IF Len(audio[c].shape) > 1
       THEN /\ audio' = [audio EXCEPT ![c] = Downmix(@)]
            /\ trace' = [trace EXCEPT ![c] = Append(@, "downmix")]
       ELSE UNCHANGED <<audio, trace>>
    /\ pc' = [pc EXCEPT ![c] = StageAfter("downmix")]
    /\ UNCHANGED <<req, sr, key, ret, seen, files, stageVars>>

ResampleToTarget(c) ==
    /\ pc[c] = "resample"
    /\ IF sr[c] # target_sample_rate
       THEN LET a == Resample(audio[c], sr[c]) IN
            /\ audio' = [audio EXCEPT ![c] = a]
            /\ sr' = [sr EXCEPT ![c] = target_sample_rate]
            /\ trace' = [trace EXCEPT ![c] = Append(@, "resample")]
            /\ pc' = [pc EXCEPT ![c] = IF a.err = "" THEN StageAfter("resample") ELSE "failed"]
       ELSE /\ pc' = [pc EXCEPT ![c] = StageAfter("resample")]
            /\ UNCHANGED <<audio, sr, trace>>
    /\ UNCHANGED <<req, key, ret, seen, files, stageVars>>

EnhanceSpeech(c) ==
    /\ Stage(c, "enhance", EnhanceSpeechShape(audio[c]))
    /\ UNCHANGED <<req, sr, key, ret, seen, files, stageVars>>

ReduceNoise(c) ==
    /\ Stage(c, "denoise", ReduceNoiseShape(audio[c]))
    /\ UNCHANGED <<req, sr, key, ret, seen, files, stageVars>>

\* the detector's verdicts are an input: the number of speech frames is drawn
\* from both ends of 0..NumFrames
SpeechCounts(n, rate) ==
    {k \in 0..NumFrames(n, rate) : k <= VadEdge \/ k >= NumFrames(n, rate) - VadEdge}

\* self.vad.is_speech(frame.tobytes(), sr): a frame of zero samples has no
\* energy and is not speech, so no frame of an all-zero buffer is, and of any
\* other buffer at most the frames that hold a sample of it
DetectorCounts(a, rate) ==
    IF a.zero THEN {0}
    ELSE {k \in SpeechCounts(Samples(a), rate) : k <= CeilDiv(Samples(a), FrameLength(rate))}

RemoveSilence(c) ==
    /\ pc[c] = "vad"
    /\ \E nspeech \in DetectorCounts(audio[c], sr[c]) :
          Stage(c, "vad", RemoveSilenceShape(audio[c], sr[c], nspeech))
    /\ UNCHANGED <<req, sr, key, ret, seen, files, stageVars>>

NormalizeAudio(c) ==
    /\ Stage(c, "normalize", NormalizeShape(audio[c]))
    /\ UNCHANGED <<req, sr, key, ret, seen, files, stageVars>>

OptimizeForMedical(c) ==
    /\ Stage(c, "optimize", OptimizeForMedicalShape(audio[c]))
    /\ UNCHANGED <<req, sr, key, ret, seen, files, stageVars>>

(***************************************************************************)
(* sf.write(output_path, audio, sr): the file is created or truncated      *)
(* when it is opened, and holds the samples once they are written.         *)
(***************************************************************************)
NewFile(c) ==
    [complete |-> FALSE, shape |-> <<>>, rate |-> 0, zero |-> FALSE, writes |-> 0,
     writers |-> {c}]

\* a name that is already taken is not reused: the file goes beside it
PutBeside(fs, p, f) ==
    LET q0 == IF p \in DOMAIN fs THEN Path(p.prefix, p.stem, "1.wav") ELSE p IN
    [q \in DOMAIN fs \cup {q0} |-> IF q = q0 THEN f ELSE fs[q]]

Put(fs, p, f) == [q \in DOMAIN fs \cup {p} |-> IF q = p THEN f ELSE fs[q]]

OpenOutput(c) ==
    LET p == OutputPath(key[c]) IN
    /\ pc[c] = "open"
    /\ files' = Put(files, p,
                    IF Exists(p)
                    THEN [files[p] EXCEPT !.complete = FALSE, !.shape = <<>>,
                                          !.writers = @ \cup {c}]
                    ELSE NewFile(c))
    /\ pc' = [pc EXCEPT ![c] = StageAfter("open")]
    /\ UNCHANGED <<req, audio, sr, key, trace, ret, seen, stageVars>>

WriteOutput(c) ==
    LET p == OutputPath(key[c]) IN
    /\ pc[c] = "write"
    /\ files' = [files EXCEPT ![p] =
                    [complete |-> (@.writers = {c}), shape |-> audio[c].shape,
                     rate |-> sr[c], zero |-> audio[c].zero, writes |-> @.writes + 1,
                     writers |-> @.writers \ {c}]]
    /\ trace' = [trace EXCEPT ![c] = Append(@, "write")]
    /\ ret' = [ret EXCEPT ![c] = p]
    /\ pc' = [pc EXCEPT ![c] = StageAfter("write")]
    /\ UNCHANGED <<req, audio, sr, key, seen, stageVars>>

Step(c) ==
    \/ Load(c)
    \/ CheckCache(c)
    \/ ConvertToMono(c)
    \/ ResampleToTarget(c)
    \/ EnhanceSpeech(c)
    \/ ReduceNoise(c)
    \/ RemoveSilence(c)
    \/ NormalizeAudio(c)
    \/ OptimizeForMedical(c)
    \/ OpenOutput(c)
    \/ WriteOutput(c)

Finished(c) == pc[c] \in {"done", "failed"}

InitCalls(requests) ==
    /\ req \in [Callers -> requests]
    /\ pc = [c \in Callers |-> "load"]
    /\ audio = [c \in Callers |-> NoAudio]
    /\ sr = [c \in Callers |-> 0]
    /\ key = [c \in Callers |-> <<>>]
    /\ trace = [c \in Callers |-> <<>>]
    /\ ret = [c \in Callers |-> NoPath]
    /\ seen = [c \in Callers |-> {}]
    /\ files = <<>>
    /\ dn = NoCall
    /\ vd = NoCall
    /\ mx = NoCall
    /\ cc = NoCall
    /\ lv = NoCall
    /\ dl = [c \in Callers |-> NoCall]

(***************************************************************************)
(* Spec: two process() calls on one preprocessor, one after the other.     *)
(***************************************************************************)
Init == InitCalls(Requests)

\* the second call is made when the first has returned or raised
Ready(c) == c = "c1" \/ Finished("c1")

Call(c) == Ready(c) /\ Load(c)

Next ==
    \E c \in Callers :
        \/ Call(c)
        \/ CheckCache(c)
        \/ ConvertToMono(c)
        \/ ResampleToTarget(c)
        \/ EnhanceSpeech(c)
        \/ ReduceNoise(c)
        \/ RemoveSilence(c)
        \/ NormalizeAudio(c)
        \/ OptimizeForMedical(c)
        \/ OpenOutput(c)
        \/ WriteOutput(c)

Spec == Init /\ [][Next]_vars

(***************************************************************************)
(* SpecKeys: two process() calls, one after the other, on inputs that      *)
(* include two files of the same samples recorded at different rates.      *)
(***************************************************************************)
\* the 32000 zero samples of Silence2s in a file of 8 kHz: 4 seconds
Silence4s8k == FileInput(4 * 8000, 1, 8000, "zeros2s", {"librosa", "pydub"})

NoFlags == [denoise |-> FALSE, normalize_audio |-> FALSE,
            remove_silence |-> FALSE, enhance_speech |-> FALSE]

KeyRequests == [input : {Silence2s, Silence4s8k, Tone4000}, flags : {AllFlags, NoFlags}]

InitKeys == InitCalls(KeyRequests)

SpecKeys == InitKeys /\ [][Next]_vars

(***************************************************************************)
(* SpecConc: two process() calls running concurrently (worker processes  *)
(* of the API server work on the same cache directory).                   *)
(***************************************************************************)
ConcRequests == [input : {Tone4000, Silence2s}, flags : {AllFlags}]

InitConc == InitCalls(ConcRequests)

NextConc == \E c \in Callers : Step(c)

SpecConc == InitConc /\ [][NextConc]_vars

(***************************************************************************)
(* Sample buffers.  A sample is an integer m standing for the float        *)
(* m / (2 * 32767); index k of the numpy array is element k + 1.           *)
(***************************************************************************)
Wave(seed, k) == IF seed = 0 THEN 0 ELSE ((seed * k + k \div 7) % 5) - 2

WaveBuffer(seed, n) == [k \in 1..n |-> Wave(seed, k - 1)]

\* range(start, stop, step) continues from i while i < stop
InRange(i, stop) == i < stop

(***************************************************************************)
(* _reduce_noise(audio, sr).  An output sample is the overlap-add          *)
(* accumulator of its index: the windows added into it and the number of   *)
(* times it was divided by 4.  With no window added it is the 0.0 that     *)
(* np.zeros_like put there.                                                *)
(***************************************************************************)
ZeroSample == [wins |-> {}, divs |-> 0]

\* a buffer one window short of the input
ZerosTruncated(n) == [k \in 1..Max(n - window_size, 0) |-> ZeroSample]

\* np.zeros_like(audio)
Zeros(n) == [k \in 1..n |-> ZeroSample]

\* noise_sample = audio[:int(0.5 * sr)] if it is longer, else audio
NoiseSampleLength(n, rate) == Min(n, rate \div 2)

\* bins of np.fft.rfft of m samples
RfftBins(m) == m \div 2 + 1

\* denoised[i:i + window_size] += window_denoised[:window_size]
OverlapAdd(den, i) ==
    [k \in 1..Len(den) |->
        IF i < k /\ k <= i + window_size
        THEN [den[k] EXCEPT !.wins = @ \cup {i}]
        ELSE den[k]]

\* denoised[i:i + hop_length] /= 4
DivideRegion(den, i) ==
    [k \in 1..Len(den) |->
        IF i < k /\ k <= i + hop_length
        THEN [den[k] EXCEPT !.divs = @ + 1]
        ELSE den[k]]

DenoiseCall(a) ==
    [at |-> "estimate", audio |-> a, noise_len |-> 0, i |-> 0, denoised |-> <<>>]

EstimateNoise ==
    /\ dn.at = "estimate"
    /\ LET m == NoiseSampleLength(Len(dn.audio), target_sample_rate) IN
       dn' = IF m = 0
             THEN [dn EXCEPT !.at = "raised"]
             ELSE [dn EXCEPT !.at = "windows", !.noise_len = m, !.i = 0,
                             !.denoised = Zeros(Len(dn.audio))]
    /\ UNCHANGED <<pipeVars, vd, mx, lv, cc>>

\* one iteration of `for i in range(0, len(audio) - window_size, hop_length)`
ProcessWindow ==
    /\ dn.at = "windows"
    /\ dn' = IF InRange(dn.i, Len(dn.audio) - window_size)
             THEN [dn EXCEPT !.denoised = OverlapAdd(@, dn.i), !.i = @ + hop_length]
             ELSE [dn EXCEPT !.at = "normalize", !.i = hop_length]
    /\ UNCHANGED <<pipeVars, vd, mx, lv, cc>>

\* one iteration of `for i in range(hop_length, len(denoised) - window_size, hop_length)`
NormalizeOverlap ==
    /\ dn.at = "normalize"
    /\ dn' = IF InRange(dn.i, Len(dn.denoised) - window_size)
             THEN [dn EXCEPT !.denoised = DivideRegion(@, dn.i), !.i = @ + hop_length]
             ELSE [dn EXCEPT !.at = "done"]
    /\ UNCHANGED <<pipeVars, vd, mx, lv, cc>>

DenoiseLengths ==
    (0..MaxSlack)
    \cup {window_size + h * hop_length + d : h \in 0..MaxHops, d \in (0 - MaxSlack)..MaxSlack}
    \cup {LongBuffer}

InitIdle ==
    /\ req = [c \in Callers |-> [input |-> Empty, flags |-> AllFlags]]
    /\ pc = [c \in Callers |-> "idle"]
    /\ audio = [c \in Callers |-> NoAudio]
    /\ sr = [c \in Callers |-> 0]
    /\ key = [c \in Callers |-> <<>>]
    /\ trace = [c \in Callers |-> <<>>]
    /\ ret = [c \in Callers |-> NoPath]
    /\ seen = [c \in Callers |-> {}]
    /\ files = <<>>

NoDownloads == [c \in Callers |-> NoCall]

InitDenoise ==
    /\ InitIdle
    /\ dl = NoDownloads
    /\ vd = NoCall
    /\ mx = NoCall
    /\ cc = NoCall
    /\ lv = NoCall
    /\ \E n \in DenoiseLengths : \E seed \in 0..MaxSeed :
          dn = DenoiseCall(WaveBuffer(seed, n))

NextDenoise == EstimateNoise \/ ProcessWindow \/ NormalizeOverlap

SpecDenoise == InitDenoise /\ [][NextDenoise]_vars

\* C5: the buffer _reduce_noise returns has as many samples as its input,
\* and it returns one for every non-empty input.
C5_LengthPreserved ==
    /\ dn.at = "done" => Len(dn.denoised) = Len(dn.audio)
    /\ dn.at = "raised" => Len(dn.audio) = 0

C5_Witness ==
    /\ dn.at = "done"
    /\ Len(dn.audio) > window_size
    /\ Len(dn.audio) % hop_length # 0
    /\ \E k \in 1..Len(dn.denoised) : dn.denoised[k].wins # {}

\* the output sample o is the input sample x: an index no window was added
\* into holds 0.0
Unmodified(o, x) == o.wins = {} /\ x = 0

\* C6: a buffer too short for any window is returned unmodified.
C6_ShortBufferUnmodified ==
    dn.at = "done" /\ Len(dn.audio) <= window_size =>
        /\ Len(dn.denoised) = Len(dn.audio)
        /\ \A k \in 1..Len(dn.audio) : Unmodified(dn.denoised[k], dn.audio[k])

\* C19: for a buffer of at least one window, every sample index lies inside
\* at least one analysis window of the loop.
C19_FullBufferCovered ==
    dn.at = "done" /\ Len(dn.audio) >= window_size =>
        \A k \in 1..Len(dn.denoised) : dn.denoised[k].wins # {}

\* C20: after overlap-add, an index covered by two or more windows was
\* divided by 4 exactly once, and an index covered by at most one window
\* was not divided.
C20_OverlapRenormalized ==
    dn.at = "done" =>
        \A k \in 1..Len(dn.denoised) :
            dn.denoised[k].divs = IF Cardinality(dn.denoised[k].wins) >= 2 THEN 1 ELSE 0

\* C29: with at least one window, the noise profile is the spectrum of as
\* many samples as a window has, so that its bins are the bins of the
\* window spectra.
C29_NoiseProfileBinsMatch ==
    dn.at \in {"windows", "normalize", "done"} /\ Len(dn.audio) > window_size =>
        /\ dn.noise_len = window_size
        /\ RfftBins(dn.noise_len) = RfftBins(window_size)

(***************************************************************************)
(* _remove_silence(audio, sr).  The detector's verdict on each frame is an *)
(* input of the model.                                                     *)
(***************************************************************************)
\* (audio * 32767).astype(np.int16) of samples in [-1, 1]: m / 2, truncated
ToInt16(m) == IF m >= 0 THEN m \div 2 ELSE 0 - ((0 - m) \div 2)

\* voiced_audio.astype(np.float32) / 32767.0
ToFloat(q) == 2 * q

\* np.pad(audio_16bit, (0, num_padding), mode='constant')
PadZeros(b, num_padding) ==
    [k \in 1..(Len(b) + num_padding) |-> IF k <= Len(b) THEN b[k] ELSE 0]

\* the first frame in place of every frame
ConcatenateFirst(frames, flen) ==
    [k \in 1..(Len(frames) * flen) |-> frames[1][((k - 1) % flen) + 1]]

\* np.concatenate(voiced_frames)
Concatenate(frames, flen) ==
    [k \in 1..(Len(frames) * flen) |-> frames[((k - 1) \div flen) + 1][((k - 1) % flen) + 1]]

\* the voiced frames are returned even when there are none
VoicedAlways(voiced_frames, original, flen) ==
    [k \in 1..(Len(voiced_frames) * flen) |-> ToFloat(Concatenate(voiced_frames, flen)[k])]

\* `if voiced_frames: ... else: return audio`
VoicedOrOriginal(voiced_frames, original, flen) ==
    IF voiced_frames # <<>>
    THEN [k \in 1..(Len(voiced_frames) * flen) |-> ToFloat(Concatenate(voiced_frames, flen)[k])]
    ELSE original

\* self.vad.is_speech(frame.tobytes(), sr): a frame of zero samples has no
\* energy and is not speech; the verdict on any other frame is an input
Verdicts(frame) ==
    IF \A k \in 1..Len(frame) : frame[k] = 0 THEN {FALSE} ELSE BOOLEAN

VadCall(a) ==
    [at |-> "pad", audio |-> a, frame_length |-> 0, audio_padded |-> <<>>, i |-> 0,
     verdicts |-> <<>>, voiced_frames |-> <<>>, result |-> <<>>]

PadToFrames ==
    /\ vd.at = "pad"
    /\ LET audio_16bit == [k \in 1..Len(vd.audio) |-> ToInt16(vd.audio[k])]
           flen == FrameLength(target_sample_rate)
           num_padding == flen - (Len(audio_16bit) % flen)
       IN vd' = [vd EXCEPT !.at = "frames", !.frame_length = flen,
                           !.audio_padded = PadZeros(audio_16bit, num_padding), !.i = 0]
    /\ UNCHANGED <<pipeVars, dn, mx, lv, cc>>

\* one iteration of `for i in range(0, len(audio_padded), frame_length)`
ClassifyFrame ==
    /\ vd.at = "frames"
    /\ IF InRange(vd.i, Len(vd.audio_padded))
       THEN LET frame == SubSeq(vd.audio_padded, vd.i + 1,
                                Min(vd.i + vd.frame_length, Len(vd.audio_padded)))
            IN IF Len(frame) = vd.frame_length
               THEN \E is_speech \in Verdicts(frame) :
                       vd' = [vd EXCEPT !.verdicts = Append(@, is_speech),
                                        !.voiced_frames =
                                            IF is_speech THEN Append(@, frame) ELSE @,
                                        !.i = @ + vd.frame_length]
               ELSE vd' = [vd EXCEPT !.i = @ + vd.frame_length]
       ELSE vd' = [vd EXCEPT !.at = "concatenate"]
    /\ UNCHANGED <<pipeVars, dn, mx, lv, cc>>

ReturnVoiced ==
    /\ vd.at = "concatenate"
    /\ vd' = [vd EXCEPT !.at = "done",
                        !.result = VoicedOrOriginal(vd.voiced_frames, vd.audio,
                                                    vd.frame_length)]
    /\ UNCHANGED <<pipeVars, dn, mx, lv, cc>>

VadLengths ==
    {n \in {f * FrameLength(target_sample_rate) + d : f \in 0..MaxVadFrames, d \in {0 - 1, 0, 1}} :
        n >= 0}

InitVad ==
    /\ InitIdle
    /\ dl = NoDownloads
    /\ dn = NoCall
    /\ mx = NoCall
    /\ cc = NoCall
    /\ lv = NoCall
    /\ \E n \in VadLengths : \E seed \in 0..MaxSeed : vd = VadCall(WaveBuffer(seed, n))

NextVad == PadToFrames \/ ClassifyFrame \/ ReturnVoiced

SpecVad == InitVad /\ [][NextVad]_vars

NoSpeech == \A j \in 1..Len(vd.verdicts) : ~vd.verdicts[j]

\* C4 (as stated): _remove_silence never returns an empty buffer; with no
\* speech frame it returns its input, otherwise at least one frame of samples.
C4_NeverEmpty ==
    vd.at = "done" =>
        /\ Len(vd.result) > 0
        /\ NoSpeech => vd.result = vd.audio
        /\ ~NoSpeech => Len(vd.result) >= vd.frame_length

\* C4 (amended): for every non-empty input _remove_silence returns a
\* non-empty buffer; for every input, with no speech frame it returns its
\* input, otherwise at least one frame of samples.
C4_NeverEmptyForNonEmptyInput ==
    vd.at = "done" =>
        /\ Len(vd.audio) > 0 => Len(vd.result) > 0
        /\ NoSpeech => vd.result = vd.audio
        /\ ~NoSpeech => Len(vd.result) >= vd.frame_length

C4_Witness ==
    /\ vd.at = "done"
    /\ Len(vd.audio) > vd.frame_length
    /\ NoSpeech
    /\ Len(vd.verdicts) >= 2
    /\ vd.result = vd.audio
    /\ \E k \in 1..Len(vd.audio) : vd.audio[k] % 2 # 0

\* C21: the padded length is a multiple of the frame length, and the returned
\* buffer holds only samples of the input: it is no longer than the input.
C21_NoPaddingInOutput ==
    /\ vd.at \in {"frames", "concatenate", "done"} =>
          Len(vd.audio_padded) % vd.frame_length = 0
    /\ vd.at = "done" => Len(vd.result) <= Len(vd.audio)

\* the frames classified as speech, by their index, in order
SpeechFrames ==
    SelectSeq([j \in 1..Len(vd.verdicts) |-> j], LAMBDA j : vd.verdicts[j])

\* C22: with at least one speech frame the returned buffer is the speech
\* frames, each once, in their original order, and nothing else.
C22_SpeechFramesInOrder ==
    vd.at = "done" /\ ~NoSpeech =>
        /\ Len(vd.result) = vd.frame_length * Len(SpeechFrames)
        /\ \A m \in 1..Len(SpeechFrames) : \A o \in 1..vd.frame_length :
              vd.result[(m - 1) * vd.frame_length + o] =
                  ToFloat(vd.audio_padded[(SpeechFrames[m] - 1) * vd.frame_length + o])

C22_Witness ==
    /\ vd.at = "done"
    /\ Len(vd.verdicts) = 3
    /\ vd.verdicts[1] /\ vd.verdicts[2]
    /\ Len(vd.result) = 2 * vd.frame_length
    /\ \E o \in 1..vd.frame_length : vd.result[o] # vd.result[vd.frame_length + o]

(***************************************************************************)
(* _load_audio and the downmix of process() on the samples.  A file holds  *)
(* 16-bit PCM frames, pcm[f][c]; a decoded sample is num / (den * 2^15).   *)
(***************************************************************************)
RECURSIVE SumSeq(_)
SumSeq(q) == IF q = <<>> THEN 0 ELSE Head(q) + SumSeq(Tail(q))

\* librosa.load(file_path, sr=None, mono=False): (frames,) for a mono file,
\* (channels, frames) otherwise
LibrosaArray(f) ==
    IF f.channels = 1
    THEN [ndim |-> 1, data |-> [k \in 1..f.frames |-> f.pcm[k][1]]]
    ELSE [ndim |-> 2, data |-> [c \in 1..f.channels |-> [k \in 1..f.frames |-> f.pcm[k][c]]]]

\* np.array(audio_segment.get_array_of_samples()): the interleaved samples
Interleaved(f) ==
    [j \in 1..(f.frames * f.channels) |->
        f.pcm[((j - 1) \div f.channels) + 1][((j - 1) % f.channels) + 1]]

\* samples.reshape((-1, 2)) for a stereo segment only
PydubArray(f) ==
    IF f.channels = 2
    THEN [ndim |-> 2, data |-> [k \in 1..f.frames |->
                                   <<Interleaved(f)[2 * k - 1], Interleaved(f)[2 * k]>>]]
    ELSE [ndim |-> 1, data |-> Interleaved(f)]

LoadSamples(f, decoder) ==
    IF decoder = "librosa" THEN LibrosaArray(f) ELSE PydubArray(f)

Rational(num, den) == [num |-> num, den |-> den]

\* np.mean(audio, axis=1) of a 2-D array: one value per row
MeanAxis1(data) == [r \in 1..Len(data) |-> Rational(SumSeq(data[r]), Len(data[r]))]

\* `if len(audio.shape) > 1: audio = np.mean(audio, axis=1)`
DownmixSamples(a) ==
    IF a.ndim > 1 THEN MeanAxis1(a.data)
    ELSE [k \in 1..Len(a.data) |-> Rational(a.data[k], 1)]

MixCall(f) == [at |-> "load", file |-> f, decoder |-> "", array |-> <<>>, mono |-> <<>>]

\* which decoder reads the file depends on its container
LoadFile ==
    /\ mx.at = "load"
    /\ \E decoder \in {"librosa", "pydub"} :
          mx' = [mx EXCEPT !.at = "downmix", !.decoder = decoder,
                           !.array = LoadSamples(mx.file, decoder)]
    /\ UNCHANGED <<pipeVars, dn, vd, lv, cc>>

MixToMono ==
    /\ mx.at = "downmix"
    /\ mx' = [mx EXCEPT !.at = "done", !.mono = DownmixSamples(mx.array)]
    /\ UNCHANGED <<pipeVars, dn, vd, lv, cc>>

AudioFiles ==
    UNION {[channels : {ch}, frames : {fr}, pcm : [1..fr -> [1..ch -> {0, 1}]]] :
              <<ch, fr>> \in (1..MaxChannels) \X (1..MaxMixFrames)}

InitMix ==
    /\ InitIdle
    /\ dl = NoDownloads
    /\ dn = NoCall
    /\ vd = NoCall
    /\ lv = NoCall
    /\ cc = NoCall
    /\ \E f \in AudioFiles : mx = MixCall(f)

NextMix == LoadFile \/ MixToMono

SpecMix == InitMix /\ [][NextMix]_vars

\* C9: the mono buffer of a multi-channel file of N frames and C channels has
\* N samples, and sample k is the mean over the C channels of frame k,
\* whichever decoder loaded the file.
C9_DownmixIsChannelMean ==
    mx.at = "done" /\ mx.file.channels > 1 =>
        /\ Len(mx.mono) = mx.file.frames
        /\ \A k \in 1..Len(mx.mono) :
              k <= mx.file.frames =>
                  mx.mono[k].num * mx.file.channels = SumSeq(mx.file.pcm[k]) * mx.mono[k].den

(***************************************************************************)
(* _normalize_audio(audio) and _enhance_speech(audio, sr) on the levels of *)
(* the samples, in exact arithmetic.  A level is a whole number of units   *)
(* of 1 / peak_limit.den (0.05).  A buffer is the array x of levels and    *)
(* the factor all of x is multiplied by:                                   *)
(*     sample k = x[k] * num / (den * sqrt(rootnum / rootden)) units,      *)
(* so the scaling by target_rms / rms is kept exact.                       *)
(***************************************************************************)
\* 0.95
peak_limit == Rational(19, 20)
\* 0.1
target_rms == Rational(1, 10)

Unit == peak_limit.den
PeakUnits == peak_limit.num
TargetUnits == (target_rms.num * Unit) \div target_rms.den

Abs(m) == IF m >= 0 THEN m ELSE 0 - m

Factor(num, den, rootnum, rootden) ==
    [num |-> num, den |-> den, rootnum |-> rootnum, rootden |-> rootden]

Scaled(x, factor) == [x |-> x, factor |-> factor]

\* the buffer as it was passed in
Plain(x) == Scaled(x, Factor(1, 1, 1, 1))

\* np.max(np.abs(x))
MaxAbs(x) == CHOOSE m \in {Abs(x[k]) : k \in 1..Len(x)} : \A k \in 1..Len(x) : Abs(x[k]) <= m

\* the sum of x[lo]^2 .. x[hi]^2, by halves
RECURSIVE SumSquaresOf(_, _, _)
SumSquaresOf(x, lo, hi) ==
    IF lo > hi THEN 0
    ELSE IF lo = hi THEN x[lo] * x[lo]
    ELSE SumSquaresOf(x, lo, (lo + hi) \div 2) + SumSquaresOf(x, ((lo + hi) \div 2) + 1, hi)

\* np.sum(audio**2), in square units
SumSquares(x) == SumSquaresOf(x, 1, Len(x))

\* |m * factor| > 0.95, compared by the squares
Exceeds(m, f) ==
    (m * f.num) * (m * f.num) * f.rootden > (PeakUnits * f.den) * (PeakUnits * f.den) * f.rootnum

\* a limiter that lets the peak reach full scale
LimitPeakToFullScale(b) ==
    LET m == MaxAbs(b.x)
        f == b.factor IN
    IF (m * f.num) * (m * f.num) * f.rootden > (Unit * f.den) * (Unit * f.den) * f.rootnum
    THEN Scaled(b.x, Factor(Unit, m, 1, 1))
    ELSE b

\* peak = np.max(np.abs(b)); if peak > 0.95: b = b * 0.95 / peak
LimitPeak(b) ==
    IF Exceeds(MaxAbs(b.x), b.factor)
    THEN Scaled(b.x, Factor(PeakUnits, MaxAbs(b.x), 1, 1))
    ELSE b

\* scaling_factor = min(target_rms / rms, max_scaling), rms = sqrt(S / n):
\* target_rms / rms > max_scaling iff target_rms^2 * n > max_scaling^2 * S
ScalingFactor(x) ==
    IF TargetUnits * TargetUnits * Len(x) > max_scaling * max_scaling * SumSquares(x)
    THEN Factor(max_scaling, 1, 1, 1)
    ELSE Factor(TargetUnits, 1, SumSquares(x), Len(x))

LevelCall(fn, x) == [fn |-> fn, at |-> "start", audio |-> x, result |-> Plain(<<>>)]

\* rms = np.sqrt(np.mean(audio**2)); `if rms > 0:` normalized = audio *
\* scaling_factor, else `return audio`
ScaleToTargetRms ==
    /\ lv.at = "start" /\ lv.fn = "_normalize_audio"
    /\ lv' = IF SumSquares(lv.audio) > 0
             THEN [lv EXCEPT !.at = "limit",
                             !.result = Scaled(lv.audio, ScalingFactor(lv.audio))]
             ELSE [lv EXCEPT !.at = "done", !.result = Plain(lv.audio)]
    /\ UNCHANGED <<pipeVars, dn, vd, mx, cc>>

\* a buffer of n samples: v first, then w
LevelBuffer(v, w, n) == [k \in 1..n |-> IF k = 1 THEN v ELSE w]

LevelValues ==
    {0, 1, 0 - 2, PeakUnits, 0 - PeakUnits, PeakUnits + 1, 0 - Unit, MaxLevel}

\* enhanced = filtered + mid_boost.  The response of the Butterworth filters
\* is not computed: their sum is any buffer of the length of the input.
\* filtfilt raises unless the input is longer than its padding.
FilterBands ==
    /\ lv.at = "start" /\ lv.fn = "_enhance_speech"
    /\ IF Len(lv.audio) <= EnhancePadlen
       THEN lv' = [lv EXCEPT !.at = "raised"]
       ELSE \E v \in LevelValues : \E w \in LevelValues :
               lv' = [lv EXCEPT !.at = "limit",
                                !.result = Plain(LevelBuffer(v, w, Len(lv.audio)))]
    /\ UNCHANGED <<pipeVars, dn, vd, mx, cc>>

\* the peak limiting at the end of either function
LimitLevel ==
    /\ lv.at = "limit"
    /\ lv' = [lv EXCEPT !.at = "done", !.result = LimitPeak(@)]
    /\ UNCHANGED <<pipeVars, dn, vd, mx, cc>>

LevelLengths == {1, 2, EnhancePadlen, EnhancePadlen + 1, MaxLevelLen}

InitLevels ==
    /\ InitIdle
    /\ dl = NoDownloads
    /\ dn = NoCall
    /\ vd = NoCall
    /\ mx = NoCall
    /\ cc = NoCall
    /\ \E fn \in {"_normalize_audio", "_enhance_speech"} :
       \E n \in LevelLengths : \E v \in LevelValues : \E w \in LevelValues :
          lv = LevelCall(fn, LevelBuffer(v, w, n))

NextLevels == ScaleToTargetRms \/ FilterBands \/ LimitLevel

SpecLevels == InitLevels /\ [][NextLevels]_vars

\* C12: the buffer _normalize_audio returns, and the buffer _enhance_speech
\* returns, has no sample of absolute value above 0.95; _normalize_audio
\* returns a buffer for every non-empty input.
C12_PeakLimited ==
    /\ lv.at = "done" =>
          /\ Len(lv.result.x) = Len(lv.audio)
          /\ \A k \in 1..Len(lv.result.x) : ~Exceeds(lv.result.x[k], lv.result.factor)
    /\ lv.at = "raised" => lv.fn = "_enhance_speech"

C12_Witness ==
    /\ lv.at = "done"
    /\ lv.fn = "_normalize_audio"
    /\ lv.audio = LevelBuffer(0 - 2, 0, MaxLevelLen)
    /\ lv.result.factor = Factor(PeakUnits, 2, 1, 1)

(***************************************************************************)
(* _optimize_for_medical(audio, sr) on the levels of the samples, in exact *)
(* arithmetic: high-pass filter, _apply_compression(audio, 0.3, 2.0),      *)
(* pre-emphasis.  The filtered buffer is an array of levels (units of      *)
(* 0.05); a compressed or emphasized sample is the fraction num / den of   *)
(* a unit.                                                                 *)
(***************************************************************************)
\* threshold=0.3, ratio=2.0
threshold == Rational(3, 10)
ratio == 2
pre_emphasis_factor == Rational(97, 100)

ThresholdUnits == (threshold.num * Unit) \div threshold.den

\* compressed[mask] = threshold + (audio[mask] - threshold) / ratio, where
\* mask = np.abs(audio) > threshold; the other samples are copied
ApplyCompression(x) ==
    [k \in 1..Len(x) |->
        IF Abs(x[k]) > ThresholdUnits
        THEN Rational(ThresholdUnits * ratio + (x[k] - ThresholdUnits), ratio)
        ELSE Rational(x[k], 1)]

\* a - f * b
MinusScaled(a, f, b) ==
    Rational(a.num * f.den * b.den - f.num * b.num * a.den, a.den * f.den * b.den)

\* the difference taken with the sample after instead of the sample before
PreEmphasisForward(c) ==
    [k \in 1..Len(c) |->
        IF k = 1 THEN c[1]
        ELSE MinusScaled(c[k], pre_emphasis_factor, c[Min(k + 1, Len(c))])]

\* np.append(audio[0], audio[1:] - pre_emphasis_factor * audio[:-1])
PreEmphasis(c) ==
    [k \in 1..Len(c) |->
        IF k = 1 THEN c[1] ELSE MinusScaled(c[k], pre_emphasis_factor, c[k - 1])]

OptimizeCall(x) ==
    [fn |-> "_optimize_for_medical", at |-> "highpass", audio |-> x, filtered |-> <<>>,
     compressed |-> <<>>, result |-> <<>>, steps |-> <<>>]

CompressValues ==
    {0, ThresholdUnits, 0 - ThresholdUnits, ThresholdUnits + 1, 0 - (ThresholdUnits + 1),
     MaxLevel, 0 - MaxLevel}

\* audio = signal.filtfilt(b, a, audio).  The response of the filter is not
\* computed: its output is any buffer of the length of the input.  filtfilt
\* raises unless the input is longer than its padding.
HighPass ==
    /\ lv.at = "highpass"
    /\ IF Len(lv.audio) <= OptimizePadlen
       THEN lv' = [lv EXCEPT !.at = "raised"]
       ELSE \E v \in CompressValues : \E w \in CompressValues :
               lv' = [lv EXCEPT !.at = "compress",
                                !.filtered = LevelBuffer(v, w, Len(lv.audio)),
                                !.steps = Append(@, "highpass")]
    /\ UNCHANGED <<pipeVars, dn, vd, mx, cc>>

Compress ==
    /\ lv.at = "compress"
    /\ lv' = [lv EXCEPT !.at = "emphasis", !.compressed = ApplyCompression(lv.filtered),
                        !.steps = Append(@, "compress")]
    /\ UNCHANGED <<pipeVars, dn, vd, mx, cc>>

Emphasize ==
    /\ lv.at = "emphasis"
    /\ lv' = [lv EXCEPT !.at = "done", !.result = PreEmphasis(lv.compressed),
                        !.steps = Append(@, "emphasis")]
    /\ UNCHANGED <<pipeVars, dn, vd, mx, cc>>

OptimizeLengths == {1, OptimizePadlen, OptimizePadlen + 1, OptimizePadlen + 2}

InitOptimize ==
    /\ InitIdle
    /\ dl = NoDownloads
    /\ dn = NoCall
    /\ vd = NoCall
    /\ mx = NoCall
    /\ cc = NoCall
    /\ \E n \in OptimizeLengths : \E v \in CompressValues : \E w \in CompressValues :
          lv = OptimizeCall(LevelBuffer(v, w, n))

NextOptimize == HighPass \/ Compress \/ Emphasize

SpecOptimize == InitOptimize /\ [][NextOptimize]_vars

\* the sign of an integer
Sign(m) == IF m > 0 THEN 1 ELSE IF m < 0 THEN 0 - 1 ELSE 0

\* C23: a sample of absolute value at most the threshold is returned as it
\* is; a sample above it keeps its sign and gets an absolute value of at
\* least the threshold and at most its own, positive or negative.
C23_CompressionTowardThreshold ==
    lv.at \in {"emphasis", "done"} =>
        \A k \in 1..Len(lv.filtered) :
            LET x == lv.filtered[k]
                c == lv.compressed[k] IN
            IF Abs(x) <= ThresholdUnits
            THEN c.num = x * c.den
            ELSE /\ Sign(c.num) = Sign(x)
                 /\ Abs(c.num) >= ThresholdUnits * c.den
                 /\ Abs(c.num) <= Abs(x) * c.den

Url(name, ext, serves) == [name |-> name, ext |-> ext, serves |-> serves]

\* serves: the responses the server can give to a GET of the url
Urls == {Url("clinic/visit1", "mp3", {"200"}),
         Url("clinic/visit2", "WAV", {"200", "timeout"}),
         Url("clinic/report", "pdf", {"200", "404"}),
         Url("clinic/missing", "mp3", {"404", "refused"})}

Lower(ext) == IF ext = "WAV" THEN "wav" ELSE ext

valid_extensions == {"wav", "mp3", "mp4", "m4a", "ogg", "flac", "webm"}

\* file_ext = url.split('.')[-1].split('?')[0], 'wav' unless it is recognized
FileExt(u) == IF Lower(u.ext) \in valid_extensions THEN u.ext ELSE "wav"

\* hashlib.md5(url.encode()).hexdigest(): a digest of the whole url
UrlHash(u) == <<u.name, u.ext>>

DownloadPath(u) == Path("download_", UrlHash(u), FileExt(u))

\* a call of download_audio: where it is, what it returned, and its history:
\* the calls that had ended when it looked for the file (after), its GET
\* requests (gets), the response to the last one, and whether it opened the
\* file for writing
DownloadCall(u) ==
    [at |-> "check", url |-> u, ret |-> NoPath, via |-> "", complete |-> FALSE,
     after |-> {}, gets |-> 0, response |-> "", opened |-> FALSE]

\* the file is looked for under the name without the prefix
DownloadedUnprefixed(u) == Exists(Path("", UrlHash(u), FileExt(u)))

\* os.path.exists(output_path)
Downloaded(u) == Exists(DownloadPath(u))

\* `if os.path.exists(output_path): return output_path`
CheckDownloaded(c) ==
    LET p == DownloadPath(dl[c].url)
        ended == {d \in Callers : dl[d].at \in {"returned", "raised"}}
    IN
    /\ dl[c].at = "check"
    /\ dl' = [dl EXCEPT ![c] =
                 IF Downloaded(dl[c].url)
                 THEN [@ EXCEPT !.at = "returned", !.ret = p, !.via = "cached",
                                !.complete = files[p].complete, !.after = ended]
                 ELSE [@ EXCEPT !.at = "get", !.after = ended]]
    /\ UNCHANGED <<callVars, files, dn, vd, mx, lv, cc>>

\* the response is written to the file whatever its status
AfterResponseUnchecked(response) == "open"

\* response.raise_for_status(); client.get raises on a network failure or a
\* timeout
AfterResponse(response) == IF response = "200" THEN "open" ELSE "raised"

\* client.get(url); response.raise_for_status()
HttpGet(c) ==
    /\ dl[c].at = "get"
    /\ \E response \in dl[c].url.serves :
          dl' = [dl EXCEPT ![c] = [@ EXCEPT !.at = AfterResponse(response),
                                            !.gets = @ + 1,
                                            !.response = response]]
    /\ UNCHANGED <<callVars, files, dn, vd, mx, lv, cc>>

\* open(output_path, 'wb'): creates the file, or truncates it
OpenDownload(c) ==
    LET p == DownloadPath(dl[c].url) IN
    /\ dl[c].at = "open"
    /\ files' = Put(files, p,
                    IF Exists(p)
                    THEN [files[p] EXCEPT !.complete = FALSE, !.writers = @ \cup {c}]
                    ELSE NewFile(c))
    /\ dl' = [dl EXCEPT ![c] = [@ EXCEPT !.at = "write", !.opened = TRUE]]
    /\ UNCHANGED <<callVars, dn, vd, mx, lv, cc>>

\* f.write(response.content), the file is closed, and the path is returned;
\* a file that was unlinked since it was opened stays gone
WriteDownload(c) ==
    LET p == DownloadPath(dl[c].url)
        alone == Exists(p) /\ files[p].writers = {c}
    IN
    /\ dl[c].at = "write"
    /\ files' = IF Exists(p)
                THEN [files EXCEPT ![p] =
                         [@ EXCEPT !.complete = alone, !.writes = @ + 1,
                                   !.writers = @ \ {c}]]
                ELSE files
    /\ dl' = [dl EXCEPT ![c] = [@ EXCEPT !.at = "returned", !.ret = p,
                                         !.via = "downloaded", !.complete = alone]]
    /\ UNCHANGED <<callVars, dn, vd, mx, lv, cc>>

InitDownload ==
    /\ InitIdle
    /\ dn = NoCall
    /\ vd = NoCall
    /\ mx = NoCall
    /\ cc = NoCall
    /\ lv = NoCall
    /\ dl \in [Callers -> {DownloadCall(u) : u \in Urls}]

NextDownload ==
    \E c \in Callers :
        \/ CheckDownloaded(c)
        \/ HttpGet(c)
        \/ OpenDownload(c)
        \/ WriteDownload(c)

SpecDownload == InitDownload /\ [][NextDownload]_vars

(***************************************************************************)
(* SpecHandler: two requests for a url (runpod_handler, or the audio-info  *)
(* endpoint of the API server): download_audio, the load of the file, and  *)
(* the removal of the file after use.                                      *)
(***************************************************************************)
Drop(fs, p) == [q \in DOMAIN fs \ {p} |-> fs[q]]

\* transcribe_audio(audio_path=...) / get_audio_info(audio_path): the file is
\* opened and read; FileNotFoundError when it is not there
LoadDownloaded(c) ==
    /\ dl[c].at = "returned"
    /\ dl' = [dl EXCEPT ![c].at = IF Exists(dl[c].ret) THEN "loaded" ELSE "failed"]
    /\ UNCHANGED <<callVars, files, dn, vd, mx, lv, cc>>

\* os.remove(audio_path) / os.unlink(audio_path)
RemoveDownloaded(c) ==
    /\ dl[c].at = "loaded"
    /\ IF Exists(dl[c].ret)
       THEN /\ files' = Drop(files, dl[c].ret)
            /\ dl' = [dl EXCEPT ![c].at = "finished"]
       ELSE /\ dl' = [dl EXCEPT ![c].at = "failed"]
            /\ UNCHANGED files
    /\ UNCHANGED <<callVars, dn, vd, mx, lv, cc>>

NextHandler ==
    \E c \in Callers :
        \/ CheckDownloaded(c)
        \/ HttpGet(c)
        \/ OpenDownload(c)
        \/ WriteDownload(c)
        \/ LoadDownloaded(c)
        \/ RemoveDownloaded(c)

SpecHandler == InitDownload /\ [][NextHandler]_vars

\* C27: the file of a path that download_audio handed to a request is on
\* disk until that request has loaded it: no other request's cleanup has
\* removed it in between.
C27_AssetKeptUntilLoaded ==
    \A c \in Callers :
        /\ dl[c].at = "returned" => Exists(dl[c].ret)
        /\ dl[c].at # "failed"

\* C2: a caller of download_audio that finds the file already there is
\* handed a path whose file holds the complete download.
C2_CachedDownloadComplete ==
    \A c \in Callers :
        dl[c].at = "returned" /\ dl[c].via = "cached" => dl[c].complete

\* c called download_audio with the url of d's call, after that call ended
Later(c, d) ==
    /\ c # d
    /\ d \in dl[c].after
    /\ dl[c].url = dl[d].url

\* C14: after a successful download_audio(url), a later download_audio(url)
\* returns the same local path and makes no network transfer.
C14_DownloadIdempotent ==
    \A c \in Callers : \A d \in Callers :
        Later(c, d) /\ dl[d].at = "returned" =>
            /\ dl[c].at = "returned"
            /\ dl[c].ret = dl[d].ret
            /\ dl[c].gets = 0
            /\ ~dl[c].opened

C14_Witness ==
    /\ dl["c1"].at = "returned" /\ dl["c1"].via = "downloaded" /\ dl["c1"].gets = 1
    /\ Later("c2", "c1")
    /\ dl["c2"].at = "returned" /\ dl["c2"].via = "cached"
    /\ dl["c2"].ret = dl["c1"].ret
    /\ files[dl["c1"].ret].writes = 1

FailedResponses == {"404", "timeout", "refused"}

\* C15: a call whose GET ends with an error status, a network failure or a
\* timeout raises and has not created the file; no file of the url exists
\* unless another call made it; a later call for the same url goes to the
\* network again, and raises again when the request fails again.
C15_FailedFetchLeavesNoFile ==
    \A c \in Callers :
        LET p == DownloadPath(dl[c].url) IN
        /\ dl[c].response \in FailedResponses =>
              /\ dl[c].at = "raised"
              /\ ~dl[c].opened
              /\ dl[c].ret = NoPath
              /\ Exists(p) => \E d \in Callers \ {c} : dl[d].url = dl[c].url /\ dl[d].opened
        /\ \A d \in Callers :
              Later(c, d) /\ dl[d].at = "raised" =>
                  /\ dl[c].via # "cached"
                  /\ dl[c].at # "get" => dl[c].gets = 1

C15_Witness ==
    /\ dl["c1"].at = "raised" /\ dl["c1"].response = "404"
    /\ Later("c2", "c1")
    /\ dl["c2"].at = "raised" /\ dl["c2"].response = "refused" /\ dl["c2"].gets = 1
    /\ files = <<>>

\* C16: download_audio on a url whose extension is not recognized raises
\* before any request is made and creates no file.
C16_UnsupportedExtensionRejected ==
    \A c \in Callers :
        Lower(dl[c].url.ext) \notin valid_extensions =>
            /\ dl[c].at \in {"check", "raised"}
            /\ dl[c].gets = 0
            /\ ~Exists(DownloadPath(dl[c].url))

(***************************************************************************)
(* cleanup_cache(max_age_hours): one sweep over the cache directory.       *)
(* Times are whole seconds.                                                *)
(***************************************************************************)
SecondsPerHour == 3600

\* an entry of the directory with its modification time
CacheEntry(mtime) == [complete |-> TRUE, mtime |-> mtime]

\* every file is taken for a processed output
MatchesAny(p) == TRUE

\* Path(self.cache_dir).glob("processed_*")
Matches(p) == p.prefix = "processed_"

\* an entry whose age has just reached the threshold counts as old
ExpiredInclusive(age, max_age_hours) == age.num >= max_age_hours * age.den

\* file_age_hours > max_age_hours
Expired(age, max_age_hours) == age.num > max_age_hours * age.den

\* (current_time - file_path.stat().st_mtime) / 3600
FileAgeHours(current_time, mtime) == Rational(current_time - mtime, SecondsPerHour)

CleanupCall(max_age_hours, current_time, dir) ==
    [at |-> "glob", max_age_hours |-> max_age_hours, current_time |-> current_time,
     matched |-> {}, before |-> dir]

\* the names the glob pattern matches
GlobCache ==
    /\ cc.at = "glob"
    /\ cc' = [cc EXCEPT !.at = "sweep", !.matched = {p \in DOMAIN files : Matches(p)}]
    /\ UNCHANGED <<pipeVars, dn, vd, mx, lv>>

\* one iteration of the loop over the matched files, in the order the
\* directory lists them; the call returns when none is left
SweepFile ==
    /\ cc.at = "sweep"
    /\ IF cc.matched = {}
       THEN /\ cc' = [cc EXCEPT !.at = "done"]
            /\ UNCHANGED files
       ELSE \E p \in cc.matched :
               /\ files' = IF Expired(FileAgeHours(cc.current_time, files[p].mtime),
                                      cc.max_age_hours)
                           THEN Drop(files, p)
                           ELSE files
               /\ cc' = [cc EXCEPT !.matched = @ \ {p}]
    /\ UNCHANGED <<callVars, dl, dn, vd, mx, lv>>

\* time.time() at the start of the sweep
SweepTimes == {MaxAgeHours * SecondsPerHour + 1, 2 * MaxAgeHours * SecondsPerHour}

\* ages of the entries, in seconds, around the thresholds
EntryAges ==
    {0, SecondsPerHour, SecondsPerHour + 1, MaxAgeHours * SecondsPerHour + 1}

CleanupNames ==
    {OutputPath(CacheKey("tone4000", AllFlags)), OutputPath(CacheKey("zeros2s", AllFlags)),
     CachedPath(CacheKey("tone4000", AllFlags)),
     DownloadPath(Url("clinic/visit1", "mp3", {"200"}))}

InitCleanup ==
    /\ req = [c \in Callers |-> [input |-> Empty, flags |-> AllFlags]]
    /\ pc = [c \in Callers |-> "idle"]
    /\ audio = [c \in Callers |-> NoAudio]
    /\ sr = [c \in Callers |-> 0]
    /\ key = [c \in Callers |-> <<>>]
    /\ trace = [c \in Callers |-> <<>>]
    /\ ret = [c \in Callers |-> NoPath]
    /\ seen = [c \in Callers |-> {}]
    /\ dl = NoDownloads
    /\ dn = NoCall
    /\ vd = NoCall
    /\ mx = NoCall
    /\ lv = NoCall
    /\ \E now \in SweepTimes : \E names \in SUBSET CleanupNames :
       \E max_age_hours \in {0, 1, MaxAgeHours} :
          /\ files \in [names -> {CacheEntry(now - age) : age \in EntryAges}]
          /\ cc = CleanupCall(max_age_hours, now, files)

NextCleanup == GlobCache \/ SweepFile

SpecCleanup == InitCleanup /\ [][NextCleanup]_vars

\* the age in seconds, at the time of the sweep, of an entry that was there
SweptAge(p) == cc.current_time - cc.before[p].mtime

\* C26: the sweep deletes a processed entry only if its age exceeds
\* max_age_hours; when it is over, every processed entry that is not older
\* is still there and every older one is gone.
C26_SweepByAge ==
    \A p \in DOMAIN cc.before :
        p.prefix = "processed_" =>
            /\ ~Exists(p) => SweptAge(p) > cc.max_age_hours * SecondsPerHour
            /\ Exists(p) => files[p] = cc.before[p]
            /\ cc.at = "done" =>
                  (Exists(p) <=> SweptAge(p) <= cc.max_age_hours * SecondsPerHour)

C26_Witness ==
    LET old == OutputPath(CacheKey("tone4000", AllFlags))
        young == OutputPath(CacheKey("zeros2s", AllFlags)) IN
    /\ cc.at = "done"
    /\ cc.max_age_hours = 1
    /\ old \in DOMAIN cc.before /\ SweptAge(old) = SecondsPerHour + 1 /\ ~Exists(old)
    /\ young \in DOMAIN cc.before /\ SweptAge(young) = SecondsPerHour /\ Exists(young)

\* C30: the sweep leaves every file whose name does not start with
\* 'processed_' as it was, whatever its age and the threshold.
C30_SweepLeavesOthers ==
    /\ DOMAIN files \subseteq DOMAIN cc.before
    /\ \A p \in DOMAIN cc.before :
          p.prefix # "processed_" => Exists(p) /\ files[p] = cc.before[p]

C30_Witness ==
    LET download == DownloadPath(Url("clinic/visit1", "mp3", {"200"}))
        processed == OutputPath(CacheKey("tone4000", AllFlags)) IN
    /\ cc.at = "done"
    /\ cc.max_age_hours = 0
    /\ download \in DOMAIN cc.before /\ SweptAge(download) > SecondsPerHour
    /\ Exists(download)
    /\ processed \in DOMAIN cc.before /\ ~Exists(processed)

(***************************************************************************)
(* Properties of process().                                                *)
(***************************************************************************)
Has(t, s) == \E i \in 1..Len(t) : t[i] = s
Count(t, s) == Cardinality({i \in 1..Len(t) : t[i] = s})

ProcessingStages == {"enhance", "denoise", "vad", "normalize", "optimize"}

\* c made the same call as d, after d's call had returned
Repeats(c, d) ==
    /\ c # d
    /\ d \in seen[c]
    /\ req[c] = req[d]

\* C1: a repeated process() call (same input, same flags) returns the path of
\* the first call without running any processing stage and without writing
\* the file again.
C1_CacheHit ==
    \A c \in Callers : \A d \in Callers :
        Repeats(c, d) /\ pc[c] = "done" =>
            /\ \A s \in ProcessingStages \cup {"write"} : ~Has(trace[c], s)
            /\ ret[c] = ret[d]
            /\ files[ret[d]].writes = 1

\* C3: of two concurrent process() calls with the same cache key at most one
\* writes the entry's file, and the file never has two writers at once.
C3_SingleWriter ==
    \A p \in DOMAIN files :
        /\ Cardinality(files[p].writers) <= 1
        /\ files[p].writes <= 1

\* the order of the stages as the specification lists it
ClaimedOrder == <<"load", "downmix", "resample", "enhance", "denoise", "vad",
                  "normalize", "optimize", "write">>

Rank(s) == CHOOSE i \in 1..Len(ClaimedOrder) : ClaimedOrder[i] = s

\* C7: the stages of one call run in the listed order, each at most once, and
\* the output is written only after the medical optimization.
C7_StageOrder ==
    \A c \in Callers :
        /\ \A i \in 1..Len(trace[c]) : Has(ClaimedOrder, trace[c][i])
        /\ \A i \in 1..Len(trace[c]) : \A j \in 1..Len(trace[c]) :
              i < j => Rank(trace[c][i]) < Rank(trace[c][j])
        /\ Has(trace[c], "write") => Has(trace[c], "optimize")
        /\ pc[c] \in {"open", "write", "done"} => Has(trace[c], "optimize")

C7_Witness ==
    \E c \in Callers : pc[c] = "done" /\ trace[c] = ClaimedOrder

\* C8: a call that misses the cache and completes has run each optional stage
\* iff its flag is set, and the medical optimization exactly once; no call
\* ever runs an optional stage whose flag is not set.
C8_FlagsSelectStages ==
    \A c \in Callers :
        LET fl == req[c].flags
            t == trace[c] IN
        /\ Has(t, "denoise") => fl.denoise
        /\ Has(t, "normalize") => fl.normalize_audio
        /\ Has(t, "vad") => fl.remove_silence
        /\ Has(t, "enhance") => fl.enhance_speech
        /\ Count(t, "optimize") <= 1
        /\ pc[c] = "done" /\ ret[c] = OutputPath(key[c]) =>
              /\ Has(t, "denoise") <=> fl.denoise
              /\ Has(t, "normalize") <=> fl.normalize_audio
              /\ Has(t, "vad") <=> fl.remove_silence
              /\ Has(t, "enhance") <=> fl.enhance_speech
              /\ Count(t, "optimize") = 1

C8_Witness ==
    /\ pc["c1"] = "done" /\ req["c1"].flags = AllFlags
    /\ Has(trace["c1"], "denoise") /\ Has(trace["c1"], "vad")
    /\ pc["c2"] = "done" /\ req["c2"].flags = [denoise |-> FALSE, normalize_audio |-> TRUE,
                                               remove_silence |-> FALSE, enhance_speech |-> FALSE]
    /\ trace["c2"] = <<"load", "normalize", "optimize", "write">>

\* C10: process() on the 5-second, 44.1 kHz, 2-channel input with all four
\* flags set writes a mono 16000 Hz output of 80000 samples, give or take one.
C10_Scenario1 ==
    \A c \in Callers :
        /\ req[c].input \in {Stereo5sWav, Stereo5sM4a}
        /\ req[c].flags = AllFlags
        /\ Finished(c)
        => /\ pc[c] = "done"
           /\ Exists(ret[c])
           /\ files[ret[c]].rate = target_sample_rate
           /\ Len(files[ret[c]].shape) = 1
           /\ files[ret[c]].shape[1] \in (5 * target_sample_rate - 1)..(5 * target_sample_rate + 1)

ProcessedFiles(k) == {p \in DOMAIN files : p.prefix = "processed_" /\ p.stem = k}

\* C13: after two process() calls with the same cache key, exactly one
\* processed-output file of that key exists and both calls returned the
\* same path.
C13_PutIdempotent ==
    \A c \in Callers : \A d \in Callers :
        c # d /\ pc[c] = "done" /\ pc[d] = "done" /\ key[c] = key[d] =>
            /\ ret[c] = ret[d]
            /\ Cardinality(ProcessedFiles(key[c])) = 1
            /\ ret[c] \in ProcessedFiles(key[c])

C13_Witness ==
    /\ pc["c1"] = "done" /\ pc["c2"] = "done"
    /\ key["c1"] = key["c2"]
    /\ Has(trace["c1"], "write") /\ Has(trace["c2"], "write")
    /\ ret["c1"] = ret["c2"]
    /\ files[ret["c1"]].writes = 2

C25_KeyOfBytesAndFlags ==
    \A c \in Callers : \A d \in Callers :
        key[c] # <<>> /\ key[d] # <<>> /\ req[c].input.bytes = req[d].input.bytes =>
            /\ req[c].flags = req[d].flags => key[c] = key[d]
            /\ req[c].flags # req[d].flags =>
                  (key[c] # key[d] /\ OutputPath(key[c]) # OutputPath(key[d]))

C25_Witness ==
    /\ pc["c1"] = "done" /\ pc["c2"] = "done"
    /\ req["c1"].input = Tone4000 /\ req["c2"].input = Tone4000
    /\ req["c1"].flags = AllFlags
    /\ req["c2"].flags = [AllFlags EXCEPT !.enhance_speech = FALSE]
    /\ ret["c1"] # ret["c2"]
    /\ Cardinality(DOMAIN files) = 2

\* C28: two process() calls with the same flags whose decoded inputs differ
\* in their samples or in their native sample rate do not write to, or
\* return, the same output path.
C28_DistinctInputsDistinctPaths ==
    \A c \in Callers : \A d \in Callers :
        /\ pc[c] = "done" /\ pc[d] = "done"
        /\ req[c].flags = req[d].flags
        /\ \/ req[c].input.bytes # req[d].input.bytes
           \/ req[c].input.rate # req[d].input.rate
        => ret[c] # ret[d]

====
